---------------------------- MODULE Spec2Model ----------------------------
(***************************************************************************)
(* Agricultural Q&A system: query understanding (query_processor.py),      *)
(* parameter building and response synthesis (response_generator.py).      *)
(* Texts are strings; a character is a string of length 1.                 *)
(***************************************************************************)
EXTENDS Integers, Sequences, FiniteSets, TLC

(***************************************************************************)
(* Bounds of the model.                                                    *)
(***************************************************************************)
MaxWords == 2       \* fragments per generated query text
MaxSources == 2     \* length of a caller-built data_sources list
MaxRecords == 4     \* records in one source's results list

(***************************************************************************)
(* Text primitives of Python's str used by the program.                    *)
(***************************************************************************)
UpperLetters == "ABCDEFGHIJKLMNOPQRSTUVWXYZ"
LowerLetters == "abcdefghijklmnopqrstuvwxyz"
Digits == "0123456789"

Char(s, i) == SubSeq(s, i, i)

\* Python's `sub in s`
Contains(sub, s) ==
  \E i \in 1..(Len(s) - Len(sub) + 1) : SubSeq(s, i, i + Len(sub) - 1) = sub

IndexIn(c, alphabet) ==
  IF \E i \in 1..Len(alphabet) : Char(alphabet, i) = c
  THEN CHOOSE i \in 1..Len(alphabet) : Char(alphabet, i) = c
  ELSE 0

IsUpper(c) == IndexIn(c, UpperLetters) > 0
IsLower(c) == IndexIn(c, LowerLetters) > 0
IsDigit(c) == IndexIn(c, Digits) > 0
IsCased(c) == IsUpper(c) \/ IsLower(c)
\* the class \w of the re module, ASCII part
IsWordChar(c) == IsCased(c) \/ IsDigit(c) \/ c = "_"

LowerChar(c) ==
  IF IsUpper(c) THEN Char(LowerLetters, IndexIn(c, UpperLetters)) ELSE c
UpperChar(c) ==
  IF IsLower(c) THEN Char(UpperLetters, IndexIn(c, LowerLetters)) ELSE c

LowerIdentity(s) == s

\* str.lower()
RECURSIVE Lower(_)
Lower(s) ==
  IF s = "" THEN ""
  ELSE Lower(SubSeq(s, 1, Len(s) - 1)) \o LowerChar(Char(s, Len(s)))

TitleRaw(s) == s

\* str.title(): a cased character is upper-cased when the character before
\* it is not cased, and lower-cased otherwise
RECURSIVE Title(_)
Title(s) ==
  IF s = "" THEN ""
  ELSE LET n == Len(s)
           c == Char(s, n)
           startsWord == n = 1 \/ ~IsCased(Char(s, n - 1))
       IN Title(SubSeq(s, 1, n - 1)) \o
          (IF startsWord THEN UpperChar(c) ELSE LowerChar(c))

\* int() of a string of decimal digits
RECURSIVE ParseInt(_)
ParseInt(s) ==
  IF s = "" THEN 0
  ELSE ParseInt(SubSeq(s, 1, Len(s) - 1)) * 10
       + (IndexIn(Char(s, Len(s)), Digits) - 1)

(***************************************************************************)
(* Rational numbers for the confidence score: [num, den] in lowest terms.  *)
(***************************************************************************)
RECURSIVE Gcd(_, _)
Gcd(a, b) == IF b = 0 THEN a ELSE Gcd(b, a % b)

Rat(n, d) == [num |-> n \div Gcd(n, d), den |-> d \div Gcd(n, d)]
RatLeq(a, b) == a.num * b.den <= b.num * a.den
RatMin(a, b) == IF RatLeq(a, b) THEN a ELSE b

(***************************************************************************)
(* QueryProcessor.__init__: the lookup tables, in declaration order.       *)
(***************************************************************************)
intent_keywords == <<
  [intent |-> "crop_production",
   keywords |-> <<"production", "yield", "harvest", "grow", "cultivate", "produce">>],
  [intent |-> "crop_price",
   keywords |-> <<"price", "msp", "cost", "rate", "value", "minimum support price">>],
  [intent |-> "crop_area",
   keywords |-> <<"area", "hectare", "land", "acreage", "cultivation area">>],
  [intent |-> "weather",
   keywords |-> <<"weather", "rainfall", "temperature", "rain", "climate", "humidity", "wind">>],
  [intent |-> "comparison",
   keywords |-> <<"compare", "difference", "versus", "vs", "better", "higher", "lower">>],
  [intent |-> "statistics",
   keywords |-> <<"total", "average", "maximum", "minimum", "sum", "mean">>] >>

crop_names == <<
  "rice", "wheat", "cotton", "sugarcane", "maize", "corn", "barley",
  "jowar", "bajra", "ragi", "pulses", "soybean", "groundnut", "mustard",
  "sunflower", "potato", "onion", "tomato", "tea", "coffee", "rubber" >>

state_names == <<
  "punjab", "haryana", "uttar pradesh", "up", "madhya pradesh", "mp",
  "rajasthan", "gujarat", "maharashtra", "karnataka", "tamil nadu",
  "andhra pradesh", "telangana", "west bengal", "bihar", "odisha",
  "assam", "kerala", "jharkhand", "chhattisgarh" >>

seasons == <<"kharif", "rabi", "zaid", "summer", "winter", "monsoon">>

(***************************************************************************)
(* QueryProcessor._classify_intent                                         *)
(***************************************************************************)
\* sum(1 for keyword in keywords if keyword in query)
Score(keywords, query) ==
  Cardinality({i \in 1..Len(keywords) : Contains(keywords[i], query)})

\* intent_scores: the categories with a positive score, in insertion order
IntentScores(query) ==
  LET all == [i \in 1..Len(intent_keywords) |->
                [intent |-> intent_keywords[i].intent,
                 score |-> Score(intent_keywords[i].keywords, query)]]
      positive(e) == e.score > 0
  IN SelectSeq(all, positive)

\* max(intent_scores, key=intent_scores.get): a later key replaces the
\* running best only when its score is strictly greater
BestIntentLastWins(scores) ==
  LET RECURSIVE Best(_)
      Best(n) == IF n = 1 THEN 1
                 ELSE LET b == Best(n - 1)
                      IN IF scores[n].score >= scores[b].score THEN n ELSE b
  IN scores[Best(Len(scores))]

BestIntent(scores) ==
  LET RECURSIVE Best(_)
      Best(n) == IF n = 1 THEN 1
                 ELSE LET b == Best(n - 1)
                      IN IF scores[n].score > scores[b].score THEN n ELSE b
  IN scores[Best(Len(scores))]

ConfidenceUncapped(max_score) == Rat(max_score, 3)

\* min(max_score / 3.0, 1.0)
Confidence(max_score) == RatMin(Rat(max_score, 3), Rat(1, 1))

classify_intent_general_zero(query) ==
  LET scores == IntentScores(query)
  IN IF scores = <<>>
     THEN [intent_type |-> "general", confidence |-> Rat(0, 1)]
     ELSE [intent_type |-> BestIntent(scores).intent,
           confidence |-> Confidence(BestIntent(scores).score)]

classify_intent(query) ==
  LET scores == IntentScores(query)
  IN IF scores = <<>>
     THEN [intent_type |-> "general", confidence |-> Rat(1, 2)]
     ELSE [intent_type |-> BestIntent(scores).intent,
           confidence |-> Confidence(BestIntent(scores).score)]

(***************************************************************************)
(* QueryProcessor._extract_entities                                        *)
(***************************************************************************)
FirstMatchLast(vocabulary, query) ==
  LET hits == {i \in 1..Len(vocabulary) : Contains(vocabulary[i], query)}
  IN IF hits = {} THEN 0 ELSE CHOOSE i \in hits : \A j \in hits : j <= i

\* `for name in vocabulary: if name in query: ...; break`
\* index of the first vocabulary entry that occurs in the query, else 0
FirstMatch(vocabulary, query) ==
  LET hits == {i \in 1..Len(vocabulary) : Contains(vocabulary[i], query)}
  IN IF hits = {} THEN 0 ELSE CHOOSE i \in hits : \A j \in hits : i <= j

\* the state name with the two abbreviations spelled out
NormalizeState(state) ==
  IF state = "up" THEN "Uttar Pradesh"
  ELSE IF state = "mp" THEN "Madhya Pradesh"
  ELSE Title(state)

YearMatchAtUnbounded(s, i) ==
  /\ i + 3 <= Len(s)
  /\ SubSeq(s, i, i + 1) \in {"19", "20"}
  /\ IsDigit(Char(s, i + 2))
  /\ IsDigit(Char(s, i + 3))

\* year_pattern r'\b(19|20)\d{2}\b' matching at position i
YearMatchAt(s, i) ==
  /\ i + 3 <= Len(s)
  /\ SubSeq(s, i, i + 1) \in {"19", "20"}
  /\ IsDigit(Char(s, i + 2))
  /\ IsDigit(Char(s, i + 3))
  /\ (i = 1 \/ ~IsWordChar(Char(s, i - 1)))
  /\ (i + 3 = Len(s) \/ ~IsWordChar(Char(s, i + 4)))

\* re.search(year_pattern, query): start of the leftmost match, else 0
YearSearch(s) ==
  LET hits == {i \in 1..Len(s) : YearMatchAt(s, i)}
  IN IF hits = {} THEN 0 ELSE CHOOSE i \in hits : \A j \in hits : i <= j

NoEntities == [k \in {} |-> ""]

\* entities[key] = value
Put(d, key, value) == [k \in (DOMAIN d) \cup {key} |->
                         IF k = key THEN value ELSE d[k]]

extract_entities_no_alias(query) ==
  LET c == FirstMatch(crop_names, query)
      e1 == IF c > 0 THEN Put(NoEntities, "crop", Title(crop_names[c]))
            ELSE NoEntities
      s == FirstMatch(state_names, query)
      e2 == IF s > 0 THEN Put(e1, "state", NormalizeState(state_names[s]))
            ELSE e1
      y == YearSearch(query)
      e3 == IF y > 0 THEN Put(e2, "year", ParseInt(SubSeq(query, y, y + 3)))
            ELSE e2
      z == FirstMatch(seasons, query)
      e4 == IF z > 0 THEN Put(e3, "season", Title(seasons[z])) ELSE e3
  IN e4

extract_entities(query) ==
  LET c == FirstMatch(crop_names, query)
      e1 == IF c > 0 THEN Put(NoEntities, "crop", Title(crop_names[c]))
            ELSE NoEntities
      s == FirstMatch(state_names, query)
      e2 == IF s > 0 THEN Put(e1, "state", NormalizeState(state_names[s]))
            ELSE e1
      y == YearSearch(query)
      e3 == IF y > 0 THEN Put(e2, "year", ParseInt(SubSeq(query, y, y + 3)))
            ELSE e2
      z == FirstMatch(seasons, query)
      e4 == IF z > 0 THEN Put(e3, "season", Title(seasons[z])) ELSE e3
  IN IF "location" \notin DOMAIN e4 /\ "state" \in DOMAIN e4
     THEN Put(e4, "location", e4["state"])
     ELSE e4

(***************************************************************************)
(* QueryProcessor._determine_data_sources                                  *)
(***************************************************************************)
DedupNone(seq) == seq

\* list(dict.fromkeys(sources)): first occurrences, order kept
RECURSIVE Dedup(_)
Dedup(seq) ==
  IF seq = <<>> THEN <<>>
  ELSE LET front == Dedup(SubSeq(seq, 1, Len(seq) - 1))
           last == seq[Len(seq)]
       IN IF \E i \in 1..Len(front) : front[i] = last
          THEN front ELSE Append(front, last)

determine_data_sources_crop_first(intent_type, entities) ==
  LET s1 == IF intent_type \in {"crop_production", "crop_price", "crop_area"}
               \/ "crop" \in DOMAIN entities
            THEN <<"agriculture">> ELSE <<>>
      s2 == IF intent_type = "weather" \/ "season" \in DOMAIN entities
            THEN Append(s1, "weather") ELSE s1
      s3 == IF intent_type = "comparison"
            THEN s2 \o <<"agriculture", "weather">> ELSE s2
      s4 == IF s3 = <<>> THEN <<"agriculture", "weather">> ELSE s3
  IN Dedup(s4)

determine_data_sources(intent_type, entities) ==
  LET s1 == IF intent_type = "weather" \/ "season" \in DOMAIN entities
            THEN <<"weather">> ELSE <<>>
      s2 == IF intent_type \in {"crop_production", "crop_price", "crop_area"}
               \/ "crop" \in DOMAIN entities
            THEN Append(s1, "agriculture") ELSE s1
      s3 == IF intent_type = "comparison"
            THEN s2 \o <<"agriculture", "weather">> ELSE s2
      s4 == IF s3 = <<>> THEN <<"agriculture", "weather">> ELSE s3
  IN Dedup(s4)

(***************************************************************************)
(* QueryProcessor.process_query and the QueryIntent dataclass              *)
(***************************************************************************)
QueryIntent(intent_type, entities, data_sources, confidence) ==
  [intent_type |-> intent_type, entities |-> entities,
   data_sources |-> data_sources, confidence |-> confidence]

process_query(q) ==
  LET query_lower == Lower(q)
      c == classify_intent(query_lower)
      entities == extract_entities(query_lower)
  IN QueryIntent(c.intent_type, entities,
                 determine_data_sources(c.intent_type, entities),
                 c.confidence)

(***************************************************************************)
(* Ordered dictionaries (dict keeps insertion order): sequences of         *)
(* [key, val]; an assignment to a present key keeps its position.          *)
(***************************************************************************)
DictHas(d, key) == \E i \in 1..Len(d) : d[i].key = key
DictGet(d, key) == d[CHOOSE i \in 1..Len(d) : d[i].key = key].val
DictSetPrepend(d, key, value) ==
  IF DictHas(d, key)
  THEN [i \in 1..Len(d) |-> IF d[i].key = key
                            THEN [key |-> key, val |-> value] ELSE d[i]]
  ELSE <<[key |-> key, val |-> value]>> \o d

DictSet(d, key, value) ==
  IF DictHas(d, key)
  THEN [i \in 1..Len(d) |-> IF d[i].key = key
                            THEN [key |-> key, val |-> value] ELSE d[i]]
  ELSE Append(d, [key |-> key, val |-> value])

(***************************************************************************)
(* QueryProcessor.build_query_params                                       *)
(***************************************************************************)
AgricultureParams(entities) ==
  LET p1 == IF "crop" \in DOMAIN entities
            THEN Put(NoEntities, "crop", entities["crop"]) ELSE NoEntities
      p2 == IF "state" \in DOMAIN entities
            THEN Put(p1, "state", entities["state"]) ELSE p1
  IN IF "year" \in DOMAIN entities
     THEN Put(p2, "year", entities["year"]) ELSE p2

WeatherParamsAlwaysSeason(entities) ==
  LET p1 == IF "location" \in DOMAIN entities
            THEN Put(NoEntities, "location", entities["location"])
            ELSE IF "state" \in DOMAIN entities
            THEN Put(NoEntities, "location", entities["state"])
            ELSE NoEntities
  IN Put(p1, "season", IF "season" \in DOMAIN entities
                       THEN entities["season"] ELSE "None")

WeatherParamsStateFirst(entities) ==
  LET p1 == IF "state" \in DOMAIN entities
            THEN Put(NoEntities, "location", entities["state"])
            ELSE IF "location" \in DOMAIN entities
            THEN Put(NoEntities, "location", entities["location"])
            ELSE NoEntities
  IN IF "season" \in DOMAIN entities
     THEN Put(p1, "season", entities["season"]) ELSE p1

WeatherParams(entities) ==
  LET p1 == IF "location" \in DOMAIN entities
            THEN Put(NoEntities, "location", entities["location"])
            ELSE IF "state" \in DOMAIN entities
            THEN Put(NoEntities, "location", entities["state"])
            ELSE NoEntities
  IN IF "season" \in DOMAIN entities
     THEN Put(p1, "season", entities["season"]) ELSE p1

\* the body of `for source in query_intent.data_sources`
SourceParams(source, entities) ==
  IF source = "agriculture" THEN AgricultureParams(entities)
  ELSE IF source = "weather" THEN WeatherParams(entities)
  ELSE NoEntities

build_query_params(query_intent) ==
  LET RECURSIVE Loop(_)
      Loop(n) ==
        IF n = 0 THEN <<>>
        ELSE DictSet(Loop(n - 1), query_intent.data_sources[n],
                     SourceParams(query_intent.data_sources[n],
                                  query_intent.entities))
  IN Loop(Len(query_intent.data_sources))

(***************************************************************************)
(* Number formatting used by the f-strings of response_generator.py.       *)
(* Values with one decimal (temperature, rainfall, wind speed) are held in *)
(* tenths: 28.5 is 285.                                                    *)
(***************************************************************************)
\* str() of a non-negative int
RECURSIVE IntStr(_)
IntStr(n) ==
  IF n < 10 THEN Char(Digits, n + 1)
  ELSE IntStr(n \div 10) \o Char(Digits, (n % 10) + 1)

\* three digits, zero padded: a group after a thousands separator
Group3(n) ==
  Char(Digits, (n \div 100) + 1) \o Char(Digits, ((n \div 10) % 10) + 1)
    \o Char(Digits, (n % 10) + 1)

\* format spec ',.0f' of a non-negative whole number
RECURSIVE FormatThousands(_)
FormatThousands(n) ==
  IF n < 1000 THEN IntStr(n)
  ELSE FormatThousands(n \div 1000) \o "," \o Group3(n % 1000)

\* format spec '.1f' of a non-negative value given in tenths
FormatOneDecimal(tenths) ==
  IntStr(tenths \div 10) \o "." \o Char(Digits, (tenths % 10) + 1)

\* separator.join(parts)
RECURSIVE Join(_, _)
Join(separator, parts) ==
  IF parts = <<>> THEN ""
  ELSE IF Len(parts) = 1 THEN parts[1]
  ELSE Join(separator, SubSeq(parts, 1, Len(parts) - 1))
       \o separator \o parts[Len(parts)]

TakeAll(seq, n) == seq

\* seq[:n]
Take(seq, n) == SubSeq(seq, 1, IF n < Len(seq) THEN n ELSE Len(seq))

\* the concatenation of f(seq[1]), ..., f(seq[n]), each a list of parts
RECURSIVE FlatMap(_, _)
FlatMap(f(_), seq) ==
  IF seq = <<>> THEN <<>>
  ELSE FlatMap(f, SubSeq(seq, 1, Len(seq) - 1)) \o f(seq[Len(seq)])

\* record.get(field, default) for a text field and for a numeric field
GetText(record, field, default) ==
  IF field \in DOMAIN record THEN record[field] ELSE default
GetNum(record, field) ==
  IF field \in DOMAIN record THEN record[field] ELSE 0
\* record.get("year", default) inside an f-string
GetYear(record, default) ==
  IF "year" \in DOMAIN record THEN IntStr(record["year"]) ELSE default

\* source_data.get("results") is truthy: the key is there and the list
\* is not empty
ResultsTruthy(source_data) ==
  "results" \in DOMAIN source_data /\ Len(source_data["results"]) > 0

\* `"x" in data_results and data_results["x"].get("results")`
HasResults(data_results, source) ==
  DictHas(data_results, source) /\ ResultsTruthy(DictGet(data_results, source))

DegreeC == "°C"
Rupee == "₹"

AgricultureAttribution == "*[Source: Ministry of Agriculture & Farmers Welfare]*"
WeatherAttribution == "*[Source: India Meteorological Department]*"

WeatherLimit == 2
GeneralLimit == 3

(***************************************************************************)
(* ResponseGenerator._generate_production_response                         *)
(***************************************************************************)
ProductionBlock(result) ==
  << "**" \o GetText(result, "crop", "Unknown crop") \o " in "
       \o GetText(result, "state", "Unknown state") \o " ("
       \o GetYear(result, "Unknown year") \o "):**\n"
       \o "- Production: " \o FormatThousands(GetNum(result, "production_tonnes"))
       \o " tonnes\n"
       \o "- Cultivation Area: " \o FormatThousands(GetNum(result, "area_hectares"))
       \o " hectares\n"
       \o "- Yield: " \o FormatThousands(GetNum(result, "yield_kg_per_hectare"))
       \o " kg/hectare",
     AgricultureAttribution >>

RelatedWeatherLine(weather) ==
  << "- " \o GetText(weather, "location", "Unknown") \o ": "
       \o FormatOneDecimal(GetNum(weather, "rainfall_mm")) \o "mm rainfall, "
       \o FormatOneDecimal(GetNum(weather, "temperature_celsius"))
       \o DegreeC \o " temperature" >>

ProductionParts(data_results) ==
  LET agriculture ==
        IF HasResults(data_results, "agriculture")
        THEN LET results == DictGet(data_results, "agriculture")["results"]
             IN IF Len(results) = 0
                THEN <<"No production data found for the specified criteria.">>
                ELSE FlatMap(ProductionBlock, results)
        ELSE <<>>
      weather ==
        IF HasResults(data_results, "weather")
        THEN LET weather_results == DictGet(data_results, "weather")["results"]
             IN IF Len(weather_results) > 0
                THEN <<"\n**Related Weather Information:**">>
                     \o FlatMap(RelatedWeatherLine,
                                Take(weather_results, WeatherLimit))
                     \o <<WeatherAttribution>>
                ELSE <<>>
        ELSE <<>>
  IN agriculture \o weather

generate_production_response(query_intent, data_results) ==
  LET answer_parts == ProductionParts(data_results)
  IN IF answer_parts # <<>> THEN Join("\n\n", answer_parts)
     ELSE "No data available for your query."

(***************************************************************************)
(* ResponseGenerator._generate_price_response                              *)
(***************************************************************************)
PriceBlock(result) ==
  << "**" \o GetText(result, "crop", "Unknown crop") \o " MSP in "
       \o GetText(result, "state", "Unknown state") \o " ("
       \o GetYear(result, "Unknown year") \o "):**\n"
       \o "- Minimum Support Price: " \o Rupee
       \o FormatThousands(GetNum(result, "msp_rupees_per_quintal"))
       \o " per quintal",
     AgricultureAttribution >>

PriceParts(data_results) ==
  IF HasResults(data_results, "agriculture")
  THEN LET results == DictGet(data_results, "agriculture")["results"]
       IN IF Len(results) = 0
          THEN <<"No price data found for the specified criteria.">>
          ELSE FlatMap(PriceBlock, results)
  ELSE <<>>

generate_price_response(query_intent, data_results) ==
  LET answer_parts == PriceParts(data_results)
  IN IF answer_parts # <<>> THEN Join("\n\n", answer_parts)
     ELSE "No price data available."

(***************************************************************************)
(* ResponseGenerator._generate_area_response                               *)
(***************************************************************************)
AreaBlock(result) ==
  << "**" \o GetText(result, "crop", "Unknown crop") \o " cultivation area in "
       \o GetText(result, "state", "Unknown state") \o " ("
       \o GetYear(result, "Unknown year") \o "):**\n"
       \o "- Total Area: " \o FormatThousands(GetNum(result, "area_hectares"))
       \o " hectares",
     AgricultureAttribution >>

AreaParts(data_results) ==
  IF HasResults(data_results, "agriculture")
  THEN FlatMap(AreaBlock, DictGet(data_results, "agriculture")["results"])
  ELSE <<>>

generate_area_response(query_intent, data_results) ==
  LET answer_parts == AreaParts(data_results)
  IN IF answer_parts # <<>> THEN Join("\n\n", answer_parts)
     ELSE "No area data available."

(***************************************************************************)
(* ResponseGenerator._generate_weather_response                            *)
(***************************************************************************)
WeatherBlock(result) ==
  << "**Weather in " \o GetText(result, "location", "Unknown location") \o " ("
       \o GetText(result, "date", "Unknown date") \o "):**\n"
       \o "- Temperature: "
       \o FormatOneDecimal(GetNum(result, "temperature_celsius")) \o DegreeC \o "\n"
       \o "- Rainfall: " \o FormatOneDecimal(GetNum(result, "rainfall_mm")) \o "mm\n"
       \o "- Humidity: " \o IntStr(GetNum(result, "humidity_percent")) \o "%\n"
       \o "- Wind Speed: " \o FormatOneDecimal(GetNum(result, "wind_speed_kmph"))
       \o " km/h\n"
       \o "- Season: " \o GetText(result, "season", "Unknown"),
     WeatherAttribution >>

WeatherParts(data_results) ==
  IF HasResults(data_results, "weather")
  THEN LET results == DictGet(data_results, "weather")["results"]
       IN IF Len(results) = 0
          THEN <<"No weather data found for the specified criteria.">>
          ELSE FlatMap(WeatherBlock, results)
  ELSE <<>>

generate_weather_response(query_intent, data_results) ==
  LET answer_parts == WeatherParts(data_results)
  IN IF answer_parts # <<>> THEN Join("\n\n", answer_parts)
     ELSE "No weather data available."

(***************************************************************************)
(* ResponseGenerator._generate_comparison_response                         *)
(***************************************************************************)
ComparisonLine(result) ==
  << "- **" \o GetText(result, "crop", "Unknown") \o " ("
       \o GetText(result, "state", "Unknown") \o "):** "
       \o FormatThousands(GetNum(result, "production_tonnes"))
       \o " tonnes production, "
       \o FormatThousands(GetNum(result, "yield_kg_per_hectare"))
       \o " kg/ha yield" >>

ComparisonParts(data_results) ==
  IF HasResults(data_results, "agriculture")
  THEN LET results == DictGet(data_results, "agriculture")["results"]
       IN IF Len(results) >= 2
          THEN <<"**Comparison:**\n">> \o FlatMap(ComparisonLine, results)
               \o <<"\n" \o AgricultureAttribution>>
          ELSE <<"Insufficient data for comparison.">>
  ELSE <<>>

generate_comparison_response(query_intent, data_results) ==
  LET answer_parts == ComparisonParts(data_results)
  IN IF answer_parts # <<>> THEN Join("\n\n", answer_parts)
     ELSE "No comparison data available."

(***************************************************************************)
(* ResponseGenerator._generate_general_response                            *)
(***************************************************************************)
GeneralAgricultureLine(result) ==
  << "- " \o GetText(result, "crop", "Unknown") \o " in "
       \o GetText(result, "state", "Unknown") \o ": "
       \o FormatThousands(GetNum(result, "production_tonnes")) \o " tonnes" >>

GeneralWeatherLine(result) ==
  << "- " \o GetText(result, "location", "Unknown") \o ": "
       \o FormatOneDecimal(GetNum(result, "temperature_celsius")) \o DegreeC \o ", "
       \o FormatOneDecimal(GetNum(result, "rainfall_mm")) \o "mm rainfall" >>

\* the body of `for source_name, source_data in data_results.items()`
GeneralSourceParts(entry) ==
  IF ResultsTruthy(entry.val)
  THEN IF entry.key = "agriculture"
       THEN <<"**Agricultural Data:**">>
            \o FlatMap(GeneralAgricultureLine,
                       Take(entry.val["results"], GeneralLimit))
            \o <<AgricultureAttribution>>
       ELSE IF entry.key = "weather"
       THEN <<"\n**Weather Data:**">>
            \o FlatMap(GeneralWeatherLine,
                       Take(entry.val["results"], GeneralLimit))
            \o <<WeatherAttribution>>
       ELSE <<>>
  ELSE <<>>

GeneralParts(data_results) == FlatMap(GeneralSourceParts, data_results)

generate_general_response(query_intent, data_results) ==
  LET answer_parts == GeneralParts(data_results)
  IN IF answer_parts = <<>>
     THEN "I couldn't find specific data matching your query. Please try rephrasing or being more specific."
     ELSE Join("\n", answer_parts)

(***************************************************************************)
(* ResponseGenerator._collect_citations                                    *)
(***************************************************************************)
CitationOfAlways(entry) ==
  LET citation == IF "citation" \in DOMAIN entry.val
                  THEN entry.val["citation"] ELSE NoEntities
  IN << [source |-> GetText(citation, "source_name", "Unknown"),
         url |-> GetText(citation, "source_url", ""),
         last_updated |-> GetText(citation, "last_updated", "Unknown")] >>

CitationOf(entry) ==
  IF "citation" \in DOMAIN entry.val
  THEN LET citation == entry.val["citation"]
       IN << [source |-> GetText(citation, "source_name", "Unknown"),
              url |-> GetText(citation, "source_url", ""),
              last_updated |-> GetText(citation, "last_updated", "Unknown")] >>
  ELSE <<>>

collect_citations(data_results) == FlatMap(CitationOf, data_results)

(***************************************************************************)
(* ResponseGenerator.__init__ (response_templates) and generate_response   *)
(***************************************************************************)
RegisteredIntents ==
  {"crop_production", "crop_price", "crop_area", "weather", "comparison",
   "general"}

AnswerDefaultProduction(query_intent, data_results) ==
  CASE query_intent.intent_type = "crop_price" ->
         generate_price_response(query_intent, data_results)
    [] query_intent.intent_type = "crop_area" ->
         generate_area_response(query_intent, data_results)
    [] query_intent.intent_type = "weather" ->
         generate_weather_response(query_intent, data_results)
    [] query_intent.intent_type = "comparison" ->
         generate_comparison_response(query_intent, data_results)
    [] query_intent.intent_type = "general" ->
         generate_general_response(query_intent, data_results)
    [] OTHER -> generate_production_response(query_intent, data_results)

\* response_templates.get(intent_type, _generate_general_response)(...)
Answer(query_intent, data_results) ==
  IF query_intent.intent_type \notin RegisteredIntents
  THEN generate_general_response(query_intent, data_results)
  ELSE
  CASE query_intent.intent_type = "crop_production" ->
         generate_production_response(query_intent, data_results)
    [] query_intent.intent_type = "crop_price" ->
         generate_price_response(query_intent, data_results)
    [] query_intent.intent_type = "crop_area" ->
         generate_area_response(query_intent, data_results)
    [] query_intent.intent_type = "weather" ->
         generate_weather_response(query_intent, data_results)
    [] query_intent.intent_type = "comparison" ->
         generate_comparison_response(query_intent, data_results)
    [] OTHER -> generate_general_response(query_intent, data_results)

generate_response(q, query_intent, data_results, now) ==
  [answer |-> Answer(query_intent, data_results),
   citations |-> collect_citations(data_results),
   metadata |-> [query |-> q,
                 intent |-> query_intent.intent_type,
                 entities |-> query_intent.entities,
                 confidence |-> query_intent.confidence,
                 sources_queried |-> query_intent.data_sources,
                 timestamp |-> now]]

(***************************************************************************)
(* Inputs.                                                                 *)
(***************************************************************************)
\* the example queries of /api/examples and test_query_processor, and the
\* worked example of the specification
Examples == {
  "What is the rice production in Punjab?",
  "Show me wheat prices in 2024",
  "What is the weather like in Gujarat?",
  "Compare rice and wheat production",
  "What is the rainfall in West Bengal during monsoon?",
  "What is the MSP for cotton in Gujarat?",
  "Show me sugarcane cultivation area in Uttar Pradesh",
  "rice production in punjab" }

\* get_example_queries: the examples of /api/examples with their category
example_queries == <<
  [query |-> "What is the rice production in Punjab?", category |-> "Production"],
  [query |-> "Show me wheat prices in 2024", category |-> "Pricing"],
  [query |-> "What is the weather like in Gujarat?", category |-> "Weather"],
  [query |-> "Compare rice and wheat production", category |-> "Comparison"],
  [query |-> "What is the rainfall in West Bengal during monsoon?",
   category |-> "Weather"],
  [query |-> "What is the MSP for cotton in Gujarat?", category |-> "Pricing"],
  [query |-> "Show me sugarcane cultivation area in Uttar Pradesh",
   category |-> "Area"] >>

Fragments == <<
  "rice", "wheat", "price", "production", "rainfall temperature", "weather",
  "compare", "monsoon", "punjab", "in 2024", "hello", "total area",
  "kharif2024", "up", "120245", "1999" >>

\* the texts made of n fragments separated by one space
RECURSIVE Phrases(_)
Phrases(n) ==
  IF n = 1 THEN {Fragments[i] : i \in 1..Len(Fragments)}
  ELSE {p \o " " \o Fragments[i] : p \in Phrases(n - 1), i \in 1..Len(Fragments)}

Queries == Examples \cup UNION {Phrases(n) : n \in 1..MaxWords}

IntentTypes ==
  {"crop_production", "crop_price", "crop_area", "weather", "comparison",
   "statistics", "general"}

EntityKeys == {"crop", "state", "location", "year", "season"}

SampleValue(key) ==
  CASE key = "crop" -> "Wheat"
    [] key = "state" -> "Punjab"
    [] key = "location" -> "Gujarat"
    [] key = "year" -> 2023
    [] key = "season" -> "Rabi"

\* the entity mappings a caller can pass: any subset of the keys
EntitySets == {[k \in K |-> SampleValue(k)] : K \in SUBSET EntityKeys}

SourceNames == {"agriculture", "weather", "soil"}

RECURSIVE SourceLists(_)
SourceLists(n) ==
  IF n = 0 THEN {<<>>}
  ELSE SourceLists(n - 1)
       \cup {Append(l, s) : l \in {m \in SourceLists(n - 1) : Len(m) = n - 1},
                            s \in SourceNames}

\* AgricultureDataSource._create_sample_agriculture_data
AgricultureData == <<
  [crop |-> "Rice", state |-> "Punjab", year |-> 2024,
   production_tonnes |-> 12500000, area_hectares |-> 3100000,
   yield_kg_per_hectare |-> 4032, msp_rupees_per_quintal |-> 2183],
  [crop |-> "Wheat", state |-> "Punjab", year |-> 2024,
   production_tonnes |-> 18000000, area_hectares |-> 3500000,
   yield_kg_per_hectare |-> 5143, msp_rupees_per_quintal |-> 2275],
  [crop |-> "Rice", state |-> "West Bengal", year |-> 2024,
   production_tonnes |-> 15600000, area_hectares |-> 5400000,
   yield_kg_per_hectare |-> 2889, msp_rupees_per_quintal |-> 2183],
  [crop |-> "Cotton", state |-> "Gujarat", year |-> 2024,
   production_tonnes |-> 8500000, area_hectares |-> 2600000,
   yield_kg_per_hectare |-> 3269, msp_rupees_per_quintal |-> 7020],
  [crop |-> "Sugarcane", state |-> "Uttar Pradesh", year |-> 2024,
   production_tonnes |-> 145000000, area_hectares |-> 2200000,
   yield_kg_per_hectare |-> 65909, msp_rupees_per_quintal |-> 340] >>

\* IMDDataSource._create_sample_weather_data (one-decimal values in tenths)
WeatherData == <<
  [location |-> "Punjab", date |-> "2024-10-01", temperature_celsius |-> 285,
   rainfall_mm |-> 452, humidity_percent |-> 72, wind_speed_kmph |-> 123,
   season |-> "Monsoon"],
  [location |-> "West Bengal", date |-> "2024-10-01", temperature_celsius |-> 302,
   rainfall_mm |-> 1258, humidity_percent |-> 85, wind_speed_kmph |-> 157,
   season |-> "Monsoon"],
  [location |-> "Gujarat", date |-> "2024-10-01", temperature_celsius |-> 328,
   rainfall_mm |-> 354, humidity_percent |-> 68, wind_speed_kmph |-> 182,
   season |-> "Monsoon"],
  [location |-> "Uttar Pradesh", date |-> "2024-10-01", temperature_celsius |-> 297,
   rainfall_mm |-> 783, humidity_percent |-> 76, wind_speed_kmph |-> 105,
   season |-> "Monsoon"],
  [location |-> "Punjab", date |-> "2024-09-01", temperature_celsius |-> 312,
   rainfall_mm |-> 895, humidity_percent |-> 80, wind_speed_kmph |-> 141,
   season |-> "Monsoon"] >>

SourceData(source) ==
  IF source = "agriculture" THEN AgricultureData ELSE WeatherData

\* DataSource.get_citation, last_updated not set
Citation(source) ==
  [source_name |-> IF source = "agriculture"
                   THEN "Ministry of Agriculture & Farmers Welfare"
                   ELSE "India Meteorological Department (IMD)",
   source_url |-> "https://data.gov.in",
   last_updated |-> "Unknown"]

\* what DataIntegrator.query_source returns for a known source
QueryResult(source, n) ==
  [results |-> Take(SourceData(source), n), citation |-> Citation(source),
   count |-> n]

\* the per-source values the data layer or a caller can hand to the
\* synthesizer: the result of query_source, a failed source, and partial ones
SourceResults(source) ==
  {QueryResult(source, n) : n \in 0..MaxRecords}
  \cup {[results |-> Take(SourceData(source), n)] : n \in 0..1}
  \cup {[error |-> "source unavailable"],
        [error |-> "source unavailable", citation |-> Citation(source)],
        [results |-> <<NoEntities>>, citation |-> NoEntities]}

Entry(source, value) == [key |-> source, val |-> value]

\* the data_results mappings over the two sources, in either key order
DataResultsSet ==
  {<<>>}
  \cup UNION {{<<Entry(s, r)>> : r \in SourceResults(s)} :
                s \in {"agriculture", "weather"}}
  \cup {<<Entry("agriculture", a), Entry("weather", w)>> :
          a \in SourceResults("agriculture"), w \in SourceResults("weather")}
  \cup {<<Entry("weather", w), Entry("agriculture", a)>> :
          a \in SourceResults("agriculture"), w \in SourceResults("weather")}

ResponseIntents ==
  {QueryIntent(t, [k \in {"crop", "state"} |-> SampleValue(k)],
               <<"agriculture", "weather">>, Rat(1, 3)) :
     t \in IntentTypes \cup {"forecast"}}

Timestamps == {"2026-01-01T00:00:00", "2026-01-01T00:00:01"}

(***************************************************************************)
(* data_integrator.py: the two sources hold the sample data.               *)
(***************************************************************************)
\* [r for r in results if params[field].lower() in r[field].lower()]
FilterContains(results, field, value) ==
  LET keep(r) == Contains(Lower(value), Lower(r[field]))
  IN SelectSeq(results, keep)

\* [r for r in results if r[field] == params[field]]
FilterEquals(results, field, value) ==
  LET keep(r) == r[field] = value
  IN SelectSeq(results, keep)

\* AgricultureDataSource.query
agriculture_query(params) ==
  LET r1 == IF "crop" \in DOMAIN params
            THEN FilterContains(AgricultureData, "crop", params["crop"])
            ELSE AgricultureData
      r2 == IF "state" \in DOMAIN params
            THEN FilterContains(r1, "state", params["state"]) ELSE r1
  IN IF "year" \in DOMAIN params
     THEN FilterEquals(r2, "year", params["year"]) ELSE r2

\* IMDDataSource.query
weather_query(params) ==
  LET r1 == IF "location" \in DOMAIN params
            THEN FilterContains(WeatherData, "location", params["location"])
            ELSE WeatherData
      r2 == IF "date" \in DOMAIN params
            THEN FilterEquals(r1, "date", params["date"]) ELSE r1
  IN IF "season" \in DOMAIN params
     THEN FilterContains(r2, "season", params["season"]) ELSE r2

\* last_updated.isoformat() once fetch_data has run at start-up
LastUpdated == "2026-01-01T00:00:00"

\* DataSource.get_citation of an initialized source
get_citation(source) == [Citation(source) EXCEPT !["last_updated"] = LastUpdated]

\* DataIntegrator.sources
KnownSources == {"agriculture", "weather"}

\* DataIntegrator.query_source
query_source(source_name, params) ==
  IF source_name \notin KnownSources
  THEN [error |-> "Unknown data source: " \o source_name]
  ELSE LET results == IF source_name = "agriculture"
                      THEN agriculture_query(params)
                      ELSE weather_query(params)
       IN [results |-> results, citation |-> get_citation(source_name),
           count |-> Len(results)]

(***************************************************************************)
(* State.                                                                  *)
(***************************************************************************)
VARIABLES
  pc,            \* "idle", "processed", "routed", "constructed", "built", "responded"
  origin,        \* who made query_intent: "none", "process_query", "caller"
  query,         \* the query text
  query_intent,  \* the QueryIntent
  query_params,  \* the result of build_query_params
  data_results,  \* the data_results handed to generate_response
  response,      \* the result of generate_response
  source_index,  \* position of the /api/query loop in data_sources
  queried        \* the sources passed to query_source so far, in call order

vars == <<pc, origin, query, query_intent, query_params, data_results,
          response, source_index, queried>>

NoIntent == QueryIntent("", NoEntities, <<>>, Rat(0, 1))
NoResponse == [answer |-> "", citations |-> <<>>, metadata |-> NoEntities]

Init ==
  /\ pc = "idle"
  /\ origin = "none"
  /\ query = ""
  /\ query_intent = NoIntent
  /\ query_params = <<>>
  /\ data_results = <<>>
  /\ response = NoResponse
  /\ source_index = 1
  /\ queried = <<>>

\* query_processor.process_query(user_query)
ProcessQuery(q) ==
  /\ pc = "idle"
  /\ pc' = "processed"
  /\ origin' = "process_query"
  /\ query' = q
  /\ query_intent' = process_query(q)
  /\ UNCHANGED <<query_params, data_results, response, source_index, queried>>

\* a direct call of _determine_data_sources on any intent type and entities
DetermineDataSources(intent_type, entities) ==
  /\ pc = "idle"
  /\ pc' = "routed"
  /\ origin' = "caller"
  /\ query_intent' = QueryIntent(intent_type, entities,
                                 determine_data_sources(intent_type, entities),
                                 Rat(1, 2))
  /\ UNCHANGED <<query, query_params, data_results, response, source_index,
                 queried>>

\* a caller builds a QueryIntent of its own
ConstructIntent(intent_type, entities, sources) ==
  /\ pc = "idle"
  /\ pc' = "constructed"
  /\ origin' = "caller"
  /\ query_intent' = QueryIntent(intent_type, entities, sources, Rat(1, 2))
  /\ UNCHANGED <<query, query_params, data_results, response, source_index,
                 queried>>

\* query_processor.build_query_params(query_intent)
BuildQueryParams ==
  /\ pc \in {"processed", "routed", "constructed"}
  /\ pc' = "built"
  /\ query_params' = build_query_params(query_intent)
  /\ UNCHANGED <<origin, query, query_intent, data_results, response,
                 source_index, queried>>

\* one iteration of `for source_name in query_intent.data_sources` of the
\* /api/query handler
QuerySource ==
  /\ pc = "built"
  /\ origin = "process_query"
  /\ source_index <= Len(query_intent.data_sources)
  /\ LET source_name == query_intent.data_sources[source_index]
     IN IF DictHas(query_params, source_name)
        THEN /\ data_results' =
                  DictSet(data_results, source_name,
                          query_source(source_name,
                                       DictGet(query_params, source_name)))
             /\ queried' = Append(queried, source_name)
        ELSE UNCHANGED <<data_results, queried>>
  /\ source_index' = source_index + 1
  /\ UNCHANGED <<pc, origin, query, query_intent, query_params, response>>

\* a caller is about to call generate_response with arguments of its own
CallGenerateResponse(q, intent, results) ==
  /\ pc = "idle"
  /\ pc' = "calling"
  /\ origin' = "caller"
  /\ query' = q
  /\ query_intent' = intent
  /\ data_results' = results
  /\ UNCHANGED <<query_params, response, source_index, queried>>

\* query_intent and data_results as the call leaves them: generate_response
\* and the routines only read them (lookups, .get, iteration, and slices,
\* which copy); no statement assigns to, appends to or deletes from them
ArgumentsAfterTruncating(intent, results) ==
  [query_intent |-> intent,
   data_results |->
     [i \in 1..Len(results) |->
        IF "results" \in DOMAIN results[i].val
        THEN [results[i] EXCEPT !.val["results"] = Take(@, GeneralLimit)]
        ELSE results[i]]]

ArgumentsAfter(intent, results) ==
  [query_intent |-> intent, data_results |-> results]

\* response_generator.generate_response(query, query_intent, data_results),
\* called by a caller or at the end of the /api/query handler
GenerateResponse(now) ==
  /\ \/ pc = "calling"
     \/ /\ pc = "built"
        /\ origin = "process_query"
        /\ source_index > Len(query_intent.data_sources)
  /\ pc' = "responded"
  /\ response' = generate_response(query, query_intent, data_results, now)
  /\ query_intent' = ArgumentsAfter(query_intent, data_results).query_intent
  /\ data_results' = ArgumentsAfter(query_intent, data_results).data_results
  /\ UNCHANGED <<origin, query, query_params, source_index, queried>>

\* the call has returned; the next one starts afresh
Return ==
  /\ \/ pc = "responded"
     \/ pc = "built" /\ source_index = 1
  /\ pc' = "idle"
  /\ origin' = "none"
  /\ query' = ""
  /\ query_intent' = NoIntent
  /\ query_params' = <<>>
  /\ data_results' = <<>>
  /\ response' = NoResponse
  /\ source_index' = 1
  /\ queried' = <<>>

Next ==
  \/ \E q \in Queries : ProcessQuery(q)
  \/ \E t \in IntentTypes, e \in EntitySets : DetermineDataSources(t, e)
  \/ \E t \in IntentTypes, e \in EntitySets, l \in SourceLists(MaxSources) :
       ConstructIntent(t, e, l)
  \/ BuildQueryParams
  \/ QuerySource
  \/ \E i \in ResponseIntents, r \in DataResultsSet :
       CallGenerateResponse("rice production in punjab", i, r)
  \/ \E now \in Timestamps : GenerateResponse(now)
  \/ Return

Spec == Init /\ [][Next]_vars

(***************************************************************************)
(* Properties.                                                             *)
(***************************************************************************)
Processed == origin = "process_query"

KeywordSet(c) ==
  {intent_keywords[c].keywords[i] : i \in 1..Len(intent_keywords[c].keywords)}

Categories == 1..Len(intent_keywords)

\* number of distinct keyword phrases of category c occurring in the text
HitCount(c, text) == Cardinality({k \in KeywordSet(c) : Contains(k, text)})

\* the length of the longest keyword list
MaxKeywords ==
  CHOOSE n \in {Len(intent_keywords[c].keywords) : c \in Categories} :
    \A c \in Categories : Len(intent_keywords[c].keywords) <= n

BestScore(text) ==
  CHOOSE n \in 0..MaxKeywords : /\ \A c \in Categories : HitCount(c, text) <= n
                      /\ (n = 0 \/ \E c \in Categories : HitCount(c, text) = n)

\* C1: a query whose lower-cased text contains none of the registered keyword
\* phrases is classified 'general' with confidence exactly 0.5
C1_GeneralWhenNoKeyword ==
  (Processed /\ BestScore(Lower(query)) = 0)
    => /\ query_intent.intent_type = "general"
       /\ query_intent.confidence = [num |-> 1, den |-> 2]

C1_Witness ==
  /\ pc = "processed"
  /\ \A c \in Categories : HitCount(c, Lower(query)) = 0
  /\ query_intent.intent_type = "general"

\* C2: with at least one keyword hit the intent is the category with the
\* highest hit count, and among the categories tied for it the one declared
\* first in the keyword table
C2_HighestCountFirstDeclared ==
  (Processed /\ BestScore(Lower(query)) > 0)
    => \E c \in Categories :
         /\ query_intent.intent_type = intent_keywords[c].intent
         /\ \A d \in Categories :
              HitCount(d, Lower(query)) <= HitCount(c, Lower(query))
         /\ \A d \in Categories :
              d < c => HitCount(d, Lower(query)) < HitCount(c, Lower(query))

C2_Witness ==
  /\ pc = "processed"
  /\ \E c, d \in Categories :
       /\ c < d
       /\ HitCount(c, Lower(query)) = BestScore(Lower(query))
       /\ HitCount(d, Lower(query)) = BestScore(Lower(query))
       /\ BestScore(Lower(query)) > 0
       /\ query_intent.intent_type = intent_keywords[c].intent

\* C3: with best score s >= 1 the confidence is min(s/3, 1): 1/3 for s = 1,
\* 2/3 for s = 2, 1 for every s >= 3; it never decreases when s grows and
\* never exceeds 1
C3_ConfidenceIsCappedThird ==
  /\ (Processed /\ BestScore(Lower(query)) >= 1)
       => LET s == BestScore(Lower(query))
          IN /\ s = 1 => query_intent.confidence = [num |-> 1, den |-> 3]
             /\ s = 2 => query_intent.confidence = [num |-> 2, den |-> 3]
             /\ s >= 3 => query_intent.confidence = [num |-> 1, den |-> 1]
  /\ \A a, b \in 1..MaxKeywords :
       a <= b => /\ RatLeq(Confidence(a), Confidence(b))
                 /\ RatLeq(Confidence(b), [num |-> 1, den |-> 1])

C3_Witness ==
  /\ pc = "processed"
  /\ BestScore(Lower(query)) >= 4
  /\ query_intent.confidence = [num |-> 1, den |-> 1]

\* the elements of a list at their first occurrence, in order
FirstOccurrences(list) ==
  LET first(i) == \A j \in 1..(i - 1) : list[j] # list[i]
      RECURSIVE Keep(_)
      Keep(n) == IF n = 0 THEN <<>>
                 ELSE IF first(n) THEN Append(Keep(n - 1), list[n])
                 ELSE Keep(n - 1)
  IN Keep(Len(list))

ExpectedSources(intent_type, entities) ==
  LET concat ==
        (IF intent_type = "weather" \/ "season" \in DOMAIN entities
         THEN <<"weather">> ELSE <<>>)
        \o (IF intent_type \in {"crop_production", "crop_price", "crop_area"}
               \/ "crop" \in DOMAIN entities
            THEN <<"agriculture">> ELSE <<>>)
        \o (IF intent_type = "comparison"
            THEN <<"agriculture", "weather">> ELSE <<>>)
  IN IF concat = <<>> THEN <<"agriculture", "weather">>
     ELSE FirstOccurrences(concat)

\* C4: _determine_data_sources returns the first-occurrence-deduplicated
\* concatenation of the weather, agriculture and comparison contributions,
\* and both sources when none applies; a comparison with a season and no
\* crop gives weather before agriculture
C4_SourcesAreDedupedConcatenation ==
  /\ pc \in {"routed", "processed"}
       => query_intent.data_sources =
            ExpectedSources(query_intent.intent_type, query_intent.entities)
  /\ (/\ pc \in {"routed", "processed"}
      /\ query_intent.intent_type = "comparison"
      /\ "season" \in DOMAIN query_intent.entities
      /\ "crop" \notin DOMAIN query_intent.entities)
       => query_intent.data_sources = <<"weather", "agriculture">>

C4_Witness ==
  /\ pc = "routed"
  /\ query_intent.intent_type = "comparison"
  /\ "season" \in DOMAIN query_intent.entities
  /\ "crop" \notin DOMAIN query_intent.entities
  /\ query_intent.data_sources = <<"weather", "agriculture">>

\* C5: the data_sources of a QueryIntent returned by process_query is not
\* empty, holds only 'agriculture' and 'weather', and holds each at most once
C5_SourcesKnownAndUnique ==
  Processed =>
    LET ds == query_intent.data_sources
    IN /\ Len(ds) > 0
       /\ \A i \in 1..Len(ds) : ds[i] \in {"agriculture", "weather"}
       /\ \A i, j \in 1..Len(ds) : i # j => ds[i] # ds[j]

C5_Witness ==
  /\ pc = "processed"
  /\ query_intent.intent_type = "comparison"
  /\ "crop" \in DOMAIN query_intent.entities
  /\ query_intent.data_sources = <<"agriculture", "weather">>

\* C6: 'rice production in punjab' gives intent crop_production, crop 'Rice',
\* state 'Punjab' and data_sources exactly ['agriculture']
C6_RiceProductionInPunjab ==
  (Processed /\ query = "rice production in punjab")
    => /\ query_intent.intent_type = "crop_production"
       /\ "crop" \in DOMAIN query_intent.entities
       /\ query_intent.entities["crop"] = "Rice"
       /\ "state" \in DOMAIN query_intent.entities
       /\ query_intent.entities["state"] = "Punjab"
       /\ query_intent.data_sources = <<"agriculture">>

C6_Witness ==
  /\ pc = "processed"
  /\ query = "rice production in punjab"
  /\ query_intent.data_sources = <<"agriculture">>

\* C7: 'What is the rainfall in West Bengal during monsoon?' gives state and
\* location 'West Bengal', season 'Monsoon', and data_sources with 'weather'
C7_RainfallInWestBengal ==
  (Processed /\ query = "What is the rainfall in West Bengal during monsoon?")
    => /\ {"state", "season", "location"} \subseteq DOMAIN query_intent.entities
       /\ query_intent.entities["state"] = "West Bengal"
       /\ query_intent.entities["season"] = "Monsoon"
       /\ query_intent.entities["location"] = "West Bengal"
       /\ \E i \in 1..Len(query_intent.data_sources) :
            query_intent.data_sources[i] = "weather"

C7_Witness ==
  /\ pc = "processed"
  /\ query = "What is the rainfall in West Bengal during monsoon?"
  /\ "location" \in DOMAIN query_intent.entities

\* C8 as stated: every filter key of every per-source mapping returned by
\* build_query_params is a key of the intent's entities, for every QueryIntent
C8_Original_NoKeyOutsideEntities ==
  pc = "built" =>
    \A i \in 1..Len(query_params) :
      DOMAIN query_params[i].val \subseteq DOMAIN query_intent.entities

\* C8 (amended): every filter key is a key of the intent's entities, except
\* the weather mapping's 'location', which is also set, to entities.state,
\* when entities hold 'state' and no 'location'; for a QueryIntent returned
\* by process_query every filter key is a key of its entities
C8_NoKeyOutsideEntitiesButLocationAlias ==
  pc = "built" =>
    /\ \A i \in 1..Len(query_params) :
         \A k \in DOMAIN query_params[i].val :
           \/ k \in DOMAIN query_intent.entities
           \/ /\ k = "location"
              /\ query_params[i].key = "weather"
              /\ "state" \in DOMAIN query_intent.entities
              /\ query_params[i].val[k] = query_intent.entities["state"]
    /\ Processed =>
         \A i \in 1..Len(query_params) :
           DOMAIN query_params[i].val \subseteq DOMAIN query_intent.entities

C8_Witness ==
  /\ pc = "built"
  /\ "state" \in DOMAIN query_intent.entities
  /\ "location" \notin DOMAIN query_intent.entities
  /\ DictHas(query_params, "weather")
  /\ "location" \in DOMAIN DictGet(query_params, "weather")

\* C9: the key set of the result of build_query_params is the set of
\* data_sources; the agriculture mapping is the entities restricted to crop,
\* state and year; the weather mapping holds location (entities.location if
\* present, else entities.state if present) and season if present, only
C9_ParamsExact ==
  pc = "built" =>
    LET e == query_intent.entities
        ds == query_intent.data_sources
        expectedWeather ==
          [k \in ({"season"} \cap DOMAIN e)
                 \cup (IF {"location", "state"} \cap DOMAIN e # {}
                       THEN {"location"} ELSE {}) |->
             IF k = "season" THEN e["season"]
             ELSE IF "location" \in DOMAIN e THEN e["location"]
             ELSE e["state"]]
    IN /\ {query_params[i].key : i \in 1..Len(query_params)}
            = {ds[i] : i \in 1..Len(ds)}
       /\ \A i, j \in 1..Len(query_params) :
            i # j => query_params[i].key # query_params[j].key
       /\ \A i \in 1..Len(query_params) :
            /\ query_params[i].key = "agriculture" =>
                 query_params[i].val =
                   [k \in {"crop", "state", "year"} \cap DOMAIN e |-> e[k]]
            /\ query_params[i].key = "weather" =>
                 query_params[i].val = expectedWeather

C9_Witness ==
  /\ pc = "built"
  /\ {"location", "state", "season"} \subseteq DOMAIN query_intent.entities
  /\ query_intent.entities["location"] # query_intent.entities["state"]
  /\ DictHas(query_params, "weather")
  /\ DictHas(query_params, "agriculture")
  /\ DictGet(query_params, "weather")["location"]
       = query_intent.entities["location"]

\* the source is a key of data_results and its results list is empty
PresentEmpty(source) ==
  \E i \in 1..Len(data_results) :
    /\ data_results[i].key = source
    /\ "results" \in DOMAIN data_results[i].val
    /\ data_results[i].val["results"] = <<>>

\* C10: when the primary source of the production, price or weather routine
\* is present in data_results with an empty results list, the answer is the
\* routine's 'No ... data found for the specified criteria.' text
C10_EmptyResultsMessage ==
  pc = "responded" =>
    /\ (/\ query_intent.intent_type = "crop_production"
        /\ PresentEmpty("agriculture")
        /\ \A i \in 1..Len(data_results) : data_results[i].key # "weather")
         => response.answer
              = "No production data found for the specified criteria."
    /\ (query_intent.intent_type = "crop_price" /\ PresentEmpty("agriculture"))
         => response.answer = "No price data found for the specified criteria."
    /\ (query_intent.intent_type = "weather" /\ PresentEmpty("weather"))
         => response.answer = "No weather data found for the specified criteria."

\* the lines of a text: text.split("\n")
RECURSIVE SplitLines(_)
SplitLines(text) ==
  LET breaks == {i \in 1..Len(text) : Char(text, i) = "\n"}
  IN IF breaks = {} THEN <<text>>
     ELSE LET b == CHOOSE i \in breaks : \A j \in breaks : i <= j
          IN <<SubSeq(text, 1, b - 1)>>
             \o SplitLines(SubSeq(text, b + 1, Len(text)))

\* the lines of a text that are not empty
NonEmptyLines(text) ==
  LET notEmpty(line) == line # ""
  IN SelectSeq(SplitLines(text), notEmpty)

\* data_results has an entry for the source with a results list
HasResultsList(source) ==
  \E i \in 1..Len(data_results) :
    data_results[i].key = source /\ "results" \in DOMAIN data_results[i].val

ResultsOf(source) ==
  data_results[CHOOSE i \in 1..Len(data_results) :
                 data_results[i].key = source].val["results"]

HasEntry(source) ==
  \E i \in 1..Len(data_results) : data_results[i].key = source

\* C11: for a comparison intent, an agriculture entry with fewer than 2
\* records gives exactly 'Insufficient data for comparison.', one with 2 or
\* more gives the Comparison header and one line per record in order, and no
\* agriculture entry gives exactly 'No comparison data available.'
C11_ComparisonThresholds ==
  (pc = "responded" /\ query_intent.intent_type = "comparison") =>
    /\ (HasResultsList("agriculture") /\ Len(ResultsOf("agriculture")) < 2)
         => response.answer = "Insufficient data for comparison."
    /\ (HasResultsList("agriculture") /\ Len(ResultsOf("agriculture")) >= 2)
         => NonEmptyLines(response.answer) =
              <<"**Comparison:**">>
              \o [i \in 1..Len(ResultsOf("agriculture")) |->
                    ComparisonLine(ResultsOf("agriculture")[i])[1]]
              \o <<AgricultureAttribution>>
    /\ ~HasEntry("agriculture")
         => response.answer = "No comparison data available."

\* the entries of data_results that carry a citation and no error
CitedWithoutError ==
  LET cited(entry) == "citation" \in DOMAIN entry.val
                      /\ "error" \notin DOMAIN entry.val
  IN SelectSeq(data_results, cited)

\* C12: the citations list has one entry per source that carries a
\* 'citation' field and lacks an 'error' field, in the iteration order of
\* data_results
C12_CitationsSkipErrors ==
  pc = "responded" =>
    /\ Len(response.citations) = Len(CitedWithoutError)
    /\ \A i \in 1..Len(CitedWithoutError) :
         i <= Len(response.citations)
           => response.citations[i].source =
                GetText(CitedWithoutError[i].val["citation"],
                        "source_name", "Unknown")

\* the answer of each routine when it finds no data
EmptyAnswer(intent_type) ==
  CASE intent_type = "crop_production" -> "No data available for your query."
    [] intent_type = "crop_price" -> "No price data available."
    [] intent_type = "crop_area" -> "No area data available."
    [] intent_type = "weather" -> "No weather data available."
    [] intent_type = "comparison" -> "No comparison data available."
    [] OTHER -> "I couldn't find specific data matching your query. Please try rephrasing or being more specific."

OnlyErrors ==
  \A i \in 1..Len(data_results) : DOMAIN data_results[i].val = {"error"}

\* C13: when every entry of data_results carries only an 'error' field,
\* generate_response returns no citation and the answer the routine gives
\* for an empty data_results, for every intent type
C13_ErrorOnlyIsAbsentData ==
  (pc = "responded" /\ OnlyErrors) =>
    /\ response.citations = <<>>
    /\ response.answer = EmptyAnswer(query_intent.intent_type)
    /\ response.answer = Answer(query_intent, <<>>)

C13_Witness ==
  /\ pc = "responded"
  /\ Len(data_results) = 2
  /\ OnlyErrors
  /\ query_intent.intent_type = "crop_area"
  /\ response.citations = <<>>

\* C14: the routine is selected by intent_type, and an intent type without a
\* registered routine, 'statistics' included, gets the answer of the general
\* routine for the same data_results
C14_DispatchWithGeneralFallback ==
  pc = "responded" =>
    LET t == query_intent.intent_type
    IN /\ t \notin {"crop_production", "crop_price", "crop_area", "weather",
                    "comparison", "general"}
            => response.answer =
                 generate_general_response(query_intent, data_results)
       /\ t = "crop_production"
            => response.answer =
                 generate_production_response(query_intent, data_results)
       /\ t = "crop_price"
            => response.answer =
                 generate_price_response(query_intent, data_results)
       /\ t = "crop_area"
            => response.answer =
                 generate_area_response(query_intent, data_results)
       /\ t = "weather"
            => response.answer =
                 generate_weather_response(query_intent, data_results)
       /\ t = "comparison"
            => response.answer =
                 generate_comparison_response(query_intent, data_results)
       /\ t = "general"
            => response.answer =
                 generate_general_response(query_intent, data_results)

C14_Witness ==
  /\ pc = "responded"
  /\ query_intent.intent_type = "statistics"
  /\ HasResultsList("agriculture")
  /\ Len(ResultsOf("agriculture")) > 0
  /\ NonEmptyLines(response.answer)[1] = "**Agricultural Data:**"

\* a run of four digits starting with 19 or 20 at position i of the text
YearRunAt(text, i) ==
  /\ i + 3 <= Len(text)
  /\ \E y \in 1900..2099 : IntStr(y) = SubSeq(text, i, i + 3)

WordCharacters == "abcdefghijklmnopqrstuvwxyzABCDEFGHIJKLMNOPQRSTUVWXYZ0123456789_"

\* the run at position i has no letter, digit or underscore directly before
\* or after it
DelimitedAt(text, i) ==
  /\ (i = 1 \/ ~Contains(Char(text, i - 1), WordCharacters))
  /\ (i + 3 = Len(text) \/ ~Contains(Char(text, i + 4), WordCharacters))

First(positions) == CHOOSE i \in positions : \A j \in positions : i <= j

\* C15 as stated: the year entity is present exactly when the text contains
\* a run (19|20)dd anywhere, also next to digits or letters, and its value is
\* the integer of the first such run
C15_Original_YearAnywhere ==
  Processed =>
    LET text == Lower(query)
        runs == {i \in 1..Len(text) : YearRunAt(text, i)}
    IN /\ "year" \in DOMAIN query_intent.entities <=> runs # {}
       /\ ("year" \in DOMAIN query_intent.entities /\ runs # {})
            => IntStr(query_intent.entities["year"])
                 = SubSeq(text, First(runs), First(runs) + 3)

\* C15 (amended): the year entity is present exactly when the text contains
\* a run (19|20)dd with no letter, digit or underscore directly before or
\* after it, and its value is the integer of the first such delimited run
C15_YearAtWordBoundaries ==
  Processed =>
    LET text == Lower(query)
        runs == {i \in 1..Len(text) : YearRunAt(text, i) /\ DelimitedAt(text, i)}
    IN /\ "year" \in DOMAIN query_intent.entities <=> runs # {}
       /\ runs # {}
            => IntStr(query_intent.entities["year"])
                 = SubSeq(text, First(runs), First(runs) + 3)

C15_Witness ==
  /\ pc = "processed"
  /\ "year" \in DOMAIN query_intent.entities
  /\ LET text == Lower(query)
         runs == {i \in 1..Len(text) : YearRunAt(text, i)}
         delimited == {i \in runs : DelimitedAt(text, i)}
     IN /\ delimited # {}
        /\ First(runs) < First(delimited)
        /\ SubSeq(text, First(runs), First(runs) + 3)
             # SubSeq(text, First(delimited), First(delimited) + 3)

\* the intent a category label of /api/examples stands for
CategoryIntent(category) ==
  CASE category = "Production" -> "crop_production"
    [] category = "Pricing" -> "crop_price"
    [] category = "Weather" -> "weather"
    [] category = "Area" -> "crop_area"
    [] category = "Comparison" -> "comparison"

\* C16: process_query classifies each example query of /api/examples to the
\* intent of its category label
C16_ExamplesMatchCategory ==
  Processed =>
    \A i \in 1..Len(example_queries) :
      example_queries[i].query = query
        => query_intent.intent_type
             = CategoryIntent(example_queries[i].category)

CitedAs(source) ==
  IF source = "agriculture" THEN "Ministry of Agriculture & Farmers Welfare"
  ELSE "India Meteorological Department (IMD)"

KeySequence(d) == [i \in 1..Len(d) |-> d[i].key]

\* C18: in the /api/query pipeline the sources are queried once each in
\* data_sources order, the keys of data_results are data_sources in order,
\* and the citations are one per queried source in that order
C18_PipelineOrder ==
  (Processed /\ pc \in {"built", "responded"}) =>
    LET sources == query_intent.data_sources
    IN /\ queried = SubSeq(sources, 1, source_index - 1)
       /\ \A i, j \in 1..Len(queried) : queried[i] = queried[j] => i = j
       /\ KeySequence(data_results) = queried
       /\ pc = "responded" =>
            /\ queried = sources
            /\ KeySequence(data_results) = sources
            /\ Len(response.citations) = Len(sources)
            /\ \A i \in 1..Len(sources) :
                 response.citations[i].source = CitedAs(sources[i])

C18_Witness ==
  /\ Processed
  /\ pc = "responded"
  /\ Len(query_intent.data_sources) = 2
  /\ Len(queried) = 2
  /\ Len(response.citations) = 2
  /\ response.citations[1].source # response.citations[2].source

\* C19: in an intent of process_query 'location' is present exactly when
\* 'state' is, and equals it; so when both sources are selected the weather
\* 'location' filter equals the agriculture 'state' filter
C19_LocationAliasesState ==
  Processed =>
    LET entities == query_intent.entities
    IN /\ "location" \in DOMAIN entities <=> "state" \in DOMAIN entities
       /\ "state" \in DOMAIN entities
            => entities["location"] = entities["state"]
       /\ (/\ pc = "built"
           /\ DictHas(query_params, "agriculture")
           /\ DictHas(query_params, "weather"))
            => LET agriculture == DictGet(query_params, "agriculture")
                   weather == DictGet(query_params, "weather")
               IN /\ "location" \in DOMAIN weather
                       <=> "state" \in DOMAIN agriculture
                  /\ "state" \in DOMAIN agriculture
                       => weather["location"] = agriculture["state"]

C19_Witness ==
  /\ Processed
  /\ pc = "built"
  /\ DictHas(query_params, "agriculture")
  /\ DictHas(query_params, "weather")
  /\ "state" \in DOMAIN DictGet(query_params, "agriculture")
  /\ "location" \in DOMAIN DictGet(query_params, "weather")
  /\ "location" \in DOMAIN query_intent.entities

Smaller(a, b) == IF a < b THEN a ELSE b

EndsWith(text, suffix) ==
  /\ Len(suffix) <= Len(text)
  /\ SubSeq(text, Len(text) - Len(suffix) + 1, Len(text)) = suffix

\* the lines the general routine owes to one entry of data_results
ExpectedGeneralBlock(entry) ==
  IF "results" \in DOMAIN entry.val /\ entry.val["results"] # <<>>
  THEN LET records == entry.val["results"]
           n == Smaller(Len(records), 3)
       IN IF entry.key = "agriculture"
          THEN <<"**Agricultural Data:**">>
               \o [i \in 1..n |-> GeneralAgricultureLine(records[i])[1]]
               \o <<AgricultureAttribution>>
          ELSE <<"**Weather Data:**">>
               \o [i \in 1..n |-> GeneralWeatherLine(records[i])[1]]
               \o <<WeatherAttribution>>
  ELSE <<>>

\* C20: the production routine ends with the 'Related Weather Information'
\* header, min(n, 2) lines of the first weather records in order and one
\* attribution; the general routine gives, per non-empty source in order, a
\* header, min(n, 3) lines of the first records in order and one attribution
C20_RecordCaps ==
  /\ (pc = "responded" /\ query_intent.intent_type = "crop_production") =>
       LET lines == NonEmptyLines(response.answer)
           header == "**Related Weather Information:**"
           weatherLines == {i \in 1..Len(lines) : EndsWith(lines[i], " temperature")}
       IN IF HasResultsList("weather") /\ ResultsOf("weather") # <<>>
          THEN LET records == ResultsOf("weather")
                   n == Smaller(Len(records), 2)
               IN /\ Cardinality(weatherLines) = n
                  /\ Len(lines) >= n + 2
                  /\ SubSeq(lines, Len(lines) - n - 1, Len(lines)) =
                       <<header>>
                       \o [i \in 1..n |-> RelatedWeatherLine(records[i])[1]]
                       \o <<WeatherAttribution>>
          ELSE /\ weatherLines = {}
               /\ \A i \in 1..Len(lines) : lines[i] # header
  /\ (pc = "responded" /\ query_intent.intent_type = "general") =>
       LET lines == NonEmptyLines(response.answer)
           expected == FlatMap(ExpectedGeneralBlock, data_results)
       IN IF expected # <<>> THEN lines = expected
          ELSE \A i \in 1..Len(lines) : ~EndsWith(lines[i], "]*")

C20_Witness ==
  /\ pc = "responded"
  /\ query_intent.intent_type = "general"
  /\ HasResultsList("agriculture")
  /\ Len(ResultsOf("agriculture")) = 4
  /\ HasResultsList("weather")
  /\ Len(ResultsOf("weather")) = 4
  /\ Len(NonEmptyLines(response.answer)) = 10

\* C21: a query whose lower-cased text contains 'price' gets the crop
\* 'Rice', the first vocabulary entry, whatever other crop names it holds;
\* one crop is recorded and 'agriculture' is among the data sources
C21_PriceIsRice ==
  (Processed /\ Contains("price", Lower(query))) =>
    LET entities == query_intent.entities
        sources == query_intent.data_sources
    IN /\ "crop" \in DOMAIN entities
       /\ entities["crop"] = "Rice"
       /\ Cardinality({i \in 1..Len(crop_names) :
                         Title(crop_names[i]) = entities["crop"]}) = 1
       /\ Cardinality({i \in 1..Len(sources) : sources[i] = "agriculture"}) = 1

C21_Witness ==
  /\ Processed
  /\ Contains("price", Lower(query))
  /\ Contains("wheat", Lower(query))
  /\ ~Contains(" rice", Lower(query))
  /\ query_intent.entities["crop"] = "Rice"
  /\ Len(query_intent.data_sources) > 0

=============================================================================
